---- MODULE Spec2Model ----
(***************************************************************************)
(* Email-triggered assistant: conversation store (database.py), context    *)
(* manager (context_manager.py), trigger parsing and reply                 *)
(* (email_handler.py) and the per-trigger turn (agent.py).                 *)
(*                                                                         *)
(* Strings are modelled as sequences of tokens (a token is a TLA+ string): *)
(* concatenation is \o, the empty string is <<>>, and the characters "<"   *)
(* and ">" are tokens of their own.  Thread ids, message ids and account   *)
(* handles are single tokens; Python's None is the token None.             *)
(***************************************************************************)
EXTENDS Integers, Sequences, FiniteSets, TLC

(* ------------------------------ bounds --------------------------------- *)
\* number of messages the agent engine may produce in one turn
MaxProduced == 2
\* length of the free message lists handed to the context manager API
MaxLen == 2

\* the invocations of the listener's callback; they may overlap
Turns == {1, 2}

(* ------------------------- Python-level helpers ------------------------ *)
None == "<None>"
EmptyStr == <<>>
EmptyDict == [k \in {} |-> k]

\* dict.get(key, default)
Get(d, key, default) == IF key \in DOMAIN d THEN d[key] ELSE default

\* truthiness of an Optional token ("" and None are falsy)
Truthy(tok) == tok # None /\ tok # ""

\* sub in s, for a one-token sub
Contains(s, tok) == \E i \in 1..Len(s) : s[i] = tok

\* str.find for a one-token needle (Len(s)+1 when absent)
IndexOf(s, tok) ==
    IF Contains(s, tok)
    THEN CHOOSE i \in 1..Len(s) : s[i] = tok /\ \A j \in 1..(i-1) : s[j] # tok
    ELSE Len(s) + 1

\* str.split(sep): the list of parts
RECURSIVE str_split(_, _)
str_split(s, sep) ==
    IF ~Contains(s, sep)
    THEN <<s>>
    ELSE <<SubSeq(s, 1, IndexOf(s, sep) - 1)>>
         \o str_split(SubSeq(s, IndexOf(s, sep) + 1, Len(s)), sep)

\* str.lower() on one token
LowerTok(tok) ==
    CASE tok = "Bot@X.com" -> "bot@x.com"
      [] tok = "BOT@X.COM" -> "bot@x.com"
      [] tok = "Alice@X.com" -> "alice@x.com"
      [] tok = "Alice " -> "alice "
      [] tok = "Assistant " -> "assistant "
      [] OTHER -> tok

\* str.lower()
str_lower(s) == [i \in 1..Len(s) |-> LowerTok(s[i])]

\* json.dumps / json.loads: the stored column is text wrapping the value
json_dumps(x) == <<"json", x>>
json_loads(text) == text[2]

(* ------------------------------ messages ------------------------------- *)
\* LangChain message objects.  tool_calls is "absent" (no such attribute),
\* "empty" (attribute present, empty list) or "calls" (non-empty list).
HumanMessage(content) ==
    [cls |-> "HumanMessage", content |-> content, tool_calls |-> "absent",
     additional_kwargs |-> {}]
AIMessage(content) ==
    [cls |-> "AIMessage", content |-> content, tool_calls |-> "empty",
     additional_kwargs |-> {}]
SystemMessage(content) ==
    [cls |-> "SystemMessage", content |-> content, tool_calls |-> "absent",
     additional_kwargs |-> {}]

\* what the agent engine (create_react_agent) streams back
AIToolCall(content) ==
    [cls |-> "AIMessage", content |-> content, tool_calls |-> "calls",
     additional_kwargs |-> {"tool_calls"}]
ToolMessage(content) ==
    [cls |-> "ToolMessage", content |-> content, tool_calls |-> "absent",
     additional_kwargs |-> {}]

EngineMessages ==
    { AIMessage(<<"Summary: ...">>),
      AIToolCall(EmptyStr),
      ToolMessage(<<"tool output">>) }

(* ------------------------- conversation store -------------------------- *)
\* one row of the table "conversations"; (user_id, thread_id) is the primary key
Conversation(user_id, thread_id, sender_email, message_history, pending_action, context, created_at, updated_at) ==
    [user_id |-> user_id, thread_id |-> thread_id, sender_email |-> sender_email,
     message_history |-> message_history, pending_action |-> pending_action,
     context |-> context, created_at |-> created_at, updated_at |-> updated_at]

\* session.query(Conversation).filter_by(user_id=..., thread_id=...)
filter_by(tbl, user_id, thread_id) ==
    {r \in tbl : r.user_id = user_id /\ r.thread_id = thread_id}

\* ConversationStore.get_conversation: <<>> for None, <<dict>> when found
get_conversation(tbl, user_id, thread_id) ==
    IF filter_by(tbl, user_id, thread_id) = {}
    THEN <<>>
    ELSE LET conversation == CHOOSE r \in filter_by(tbl, user_id, thread_id) : TRUE
         IN  << [user_id |-> conversation.user_id,
                 thread_id |-> conversation.thread_id,
                 sender_email |-> conversation.sender_email,
                 message_history |-> json_loads(conversation.message_history),
                 pending_action |-> conversation.pending_action,
                 context |-> json_loads(conversation.context),
                 created_at |-> conversation.created_at,
                 updated_at |-> conversation.updated_at] >>

\* save_conversation, "if context is None: context = {}"; an omitted argument
\* is <<>>, a passed one <<context>>
context_or_default(context) ==
    IF context = <<>> THEN EmptyDict ELSE context[1]

\* the INSERT of a row whose primary-key column is NULL is rejected by the
\* database (IntegrityError), which get_session turns into rollback + raise
save_conversation_raises(user_id, thread_id) ==
    user_id = None \/ thread_id = None

\* save_conversation whose update branch keeps the stored pending action when
\* none is passed
save_conversation_keep_pending(tbl, user_id, thread_id, sender_email, message_history, pending_action, context, clock) ==
    LET found == filter_by(tbl, user_id, thread_id) IN
    IF found # {}
    THEN LET conversation == CHOOSE r \in found : TRUE
         IN  (tbl \ {conversation}) \cup
             { Conversation(conversation.user_id, conversation.thread_id,
                            sender_email, json_dumps(message_history),
                            IF pending_action = None
                                THEN conversation.pending_action ELSE pending_action,
                            json_dumps(context),
                            conversation.created_at, clock) }
    ELSE tbl \cup
         { Conversation(user_id, thread_id, sender_email,
                        json_dumps(message_history), pending_action,
                        json_dumps(context), clock, clock) }

\* save_conversation whose update branch appends to the stored message list
save_conversation_extend(tbl, user_id, thread_id, sender_email, message_history, pending_action, context, clock) ==
    LET found == filter_by(tbl, user_id, thread_id) IN
    IF found # {}
    THEN LET conversation == CHOOSE r \in found : TRUE
         IN  (tbl \ {conversation}) \cup
             { Conversation(conversation.user_id, conversation.thread_id,
                            sender_email,
                            json_dumps(json_loads(conversation.message_history)
                                       \o message_history),
                            pending_action, json_dumps(context),
                            conversation.created_at, clock) }
    ELSE tbl \cup
         { Conversation(user_id, thread_id, sender_email,
                        json_dumps(message_history), pending_action,
                        json_dumps(context), clock, clock) }

\* ConversationStore.save_conversation (upsert), committed; clock is utcnow()
save_conversation(tbl, user_id, thread_id, sender_email, message_history, pending_action, context, clock) ==
    LET found == filter_by(tbl, user_id, thread_id) IN
    IF found # {}
    THEN LET conversation == CHOOSE r \in found : TRUE
         IN  (tbl \ {conversation}) \cup
             { Conversation(conversation.user_id, conversation.thread_id,
                            sender_email, json_dumps(message_history),
                            pending_action, json_dumps(context),
                            conversation.created_at, clock) }
    ELSE tbl \cup
         { Conversation(user_id, thread_id, sender_email,
                        json_dumps(message_history), pending_action,
                        json_dumps(context), clock, clock) }

\* delete_conversation filtering by user_id only
delete_conversation_of_user(tbl, user_id, thread_id) ==
    tbl \ {r \in tbl : r.user_id = user_id}

\* ConversationStore.delete_conversation
delete_conversation(tbl, user_id, thread_id) ==
    tbl \ filter_by(tbl, user_id, thread_id)

(* --------------------------- context manager --------------------------- *)
recent_window_size == 10

\* ContextManager._serialize_messages: one dict per message, stamped utcnow()
serialize_messages(messages, clock) ==
    [i \in 1..Len(messages) |->
        [type |-> messages[i].cls,
         content |-> messages[i].content,
         timestamp |-> clock,
         additional_kwargs |-> messages[i].additional_kwargs]]

\* deserialize_one with the AIMessage branch building a HumanMessage
deserialize_one_all_human(msg_dict) ==
    HumanMessage(Get(msg_dict, "content", EmptyStr))

\* deserialize_one building, in the else-branch, a message of the stored type
deserialize_one_keep_tag(msg_dict) ==
    [HumanMessage(Get(msg_dict, "content", EmptyStr))
        EXCEPT !.cls = Get(msg_dict, "type", "HumanMessage")]

\* the branch over msg_type in ContextManager._deserialize_messages
deserialize_one(msg_dict) ==
    LET msg_type == Get(msg_dict, "type", "HumanMessage")
        content == Get(msg_dict, "content", EmptyStr)
    IN  CASE msg_type = "HumanMessage" -> HumanMessage(content)
          [] msg_type = "AIMessage" -> AIMessage(content)
          [] msg_type = "SystemMessage" -> SystemMessage(content)
          [] OTHER -> HumanMessage(content)

\* ContextManager._deserialize_messages
deserialize_messages(message_dicts) ==
    [i \in 1..Len(message_dicts) |-> deserialize_one(message_dicts[i])]

\* recent_slice taking the first N records: all_messages[:self.recent_window_size]
recent_slice_head(all_messages) ==
    SubSeq(all_messages, 1, recent_window_size)

\* all_messages[-self.recent_window_size:]
recent_slice(all_messages) ==
    SubSeq(all_messages, Len(all_messages) - recent_window_size + 1,
           Len(all_messages))

\* ContextManager.load_conversation_context
load_conversation_context(tbl, user_id, thread_id) ==
    LET conversation == get_conversation(tbl, user_id, thread_id) IN
    IF conversation = <<>>
    THEN <<>>
    ELSE LET all_messages == conversation[1].message_history IN
         IF Len(all_messages) <= recent_window_size
         THEN deserialize_messages(all_messages)
         ELSE deserialize_messages(recent_slice(all_messages))

\* save_conversation_context handing on the pending action and the context
\* that the conversation has in the store
save_conversation_context_keep_state(tbl, user_id, thread_id, sender_email, messages, pending_action, clock) ==
    LET conversation == get_conversation(tbl, user_id, thread_id) IN
    save_conversation(tbl, user_id, thread_id, sender_email,
                      serialize_messages(messages, clock),
                      IF conversation # <<>>
                          THEN conversation[1].pending_action ELSE pending_action,
                      IF conversation # <<>>
                          THEN conversation[1].context ELSE EmptyDict,
                      clock)

\* ContextManager.save_conversation_context (context is left to its default)
save_conversation_context(tbl, user_id, thread_id, sender_email, messages, pending_action, clock) ==
    save_conversation(tbl, user_id, thread_id, sender_email,
                      serialize_messages(messages, clock), pending_action,
                      EmptyDict, clock)

\* ContextManager.get_pending_action
get_pending_action(tbl, user_id, thread_id) ==
    LET conversation == get_conversation(tbl, user_id, thread_id) IN
    IF conversation # <<>> THEN conversation[1].pending_action ELSE None

\* clear_pending_action going through the load and save of the context manager
clear_pending_action_windowed(tbl, user_id, thread_id, clock) ==
    LET conversation == get_conversation(tbl, user_id, thread_id) IN
    IF conversation # <<>>
    THEN save_conversation_context(tbl, user_id, thread_id,
             conversation[1].sender_email,
             load_conversation_context(tbl, user_id, thread_id), None, clock)
    ELSE tbl

\* ContextManager.clear_pending_action: the stored dicts are written back as
\* they are, pending_action=None, context left to its default
clear_pending_action(tbl, user_id, thread_id, clock) ==
    LET conversation == get_conversation(tbl, user_id, thread_id) IN
    IF conversation # <<>>
    THEN save_conversation(tbl, user_id, thread_id,
             conversation[1].sender_email,
             conversation[1].message_history, None, EmptyDict, clock)
    ELSE tbl

(* ----------------------------- email handler --------------------------- *)
\* parse_trigger_payload without the extraction of the bracketed address
parse_trigger_payload_whole_sender(trigger_data) ==
    LET payload == Get(trigger_data, "payload", EmptyDict)
        sender_full == Get(payload, "sender", EmptyStr)
        metadata == Get(trigger_data, "metadata", EmptyDict)
        connected_account == Get(metadata, "connected_account", EmptyDict)
    IN  [sender_email |-> IF sender_full # EmptyStr THEN sender_full
                          ELSE <<"unknown@email.com">>,
         subject |-> Get(payload, "subject", <<"No Subject">>),
         body |-> Get(payload, "message_text", EmptyStr),
         thread_id |-> Get(payload, "thread_id", None),
         message_id |-> Get(payload, "message_id", None),
         connected_account_id |-> Get(connected_account, "id", None)]

\* parse_trigger_payload with the empty string as the default subject
parse_trigger_payload_blank_subject(trigger_data) ==
    LET payload == Get(trigger_data, "payload", EmptyDict)
        sender_full == Get(payload, "sender", EmptyStr)
        metadata == Get(trigger_data, "metadata", EmptyDict)
        connected_account == Get(metadata, "connected_account", EmptyDict)
    IN  [sender_email |->
            IF Contains(sender_full, "<") /\ Contains(sender_full, ">")
            THEN str_split(str_split(sender_full, "<")[2], ">")[1]
            ELSE IF sender_full # EmptyStr THEN sender_full
                 ELSE <<"unknown@email.com">>,
         subject |-> Get(payload, "subject", EmptyStr),
         body |-> Get(payload, "message_text", EmptyStr),
         thread_id |-> Get(payload, "thread_id", None),
         message_id |-> Get(payload, "message_id", None),
         connected_account_id |-> Get(connected_account, "id", None)]

\* EmailHandler.parse_trigger_payload
parse_trigger_payload(trigger_data) ==
    LET payload == Get(trigger_data, "payload", EmptyDict)
        sender_full == Get(payload, "sender", EmptyStr)
        sender_email ==
            IF Contains(sender_full, "<") /\ Contains(sender_full, ">")
            THEN str_split(str_split(sender_full, "<")[2], ">")[1]
            ELSE IF sender_full # EmptyStr THEN sender_full
                 ELSE <<"unknown@email.com">>
        metadata == Get(trigger_data, "metadata", EmptyDict)
        connected_account == Get(metadata, "connected_account", EmptyDict)
        connected_account_id == Get(connected_account, "id", None)
    IN  [sender_email |-> sender_email,
         subject |-> Get(payload, "subject", <<"No Subject">>),
         body |-> Get(payload, "message_text", EmptyStr),
         thread_id |-> Get(payload, "thread_id", None),
         message_id |-> Get(payload, "message_id", None),
         connected_account_id |-> connected_account_id]

\* the request EmailHandler.send_reply hands to composio_client.tools.execute
send_reply(connected_account_id, thread_id, recipient_email, message_body) ==
    [tool |-> "GMAIL_REPLY_TO_THREAD",
     connected_account_id |-> connected_account_id,
     arguments |-> [thread_id |-> thread_id,
                    recipient_email |-> recipient_email,
                    message_body |-> message_body,
                    is_html |-> TRUE,
                    user_id |-> "me"]]

(* ------------------------------- inputs -------------------------------- *)
\* the inbound trigger payloads the listener may deliver
TrigPlain ==
    [payload |-> [sender |-> <<"alice@x.com">>, subject |-> <<"Hi">>,
                  message_text |-> <<"Please summarize X">>,
                  thread_id |-> "t1", message_id |-> "m1"],
     metadata |-> [connected_account |-> [id |-> "ca1"]]]
TrigDecorated ==
    [payload |-> [sender |-> <<"Alice ", "<", "Alice@X.com", ">">>,
                  message_text |-> <<"And then?">>,
                  thread_id |-> "t2", message_id |-> "m2"]]
TrigSelf ==
    [payload |-> [sender |-> <<"Assistant ", "<", "Bot@X.com", ">">>,
                  subject |-> <<"Re: Hi">>,
                  message_text |-> <<"Summary: ...">>,
                  thread_id |-> "t1", message_id |-> "m3"],
     metadata |-> [connected_account |-> [id |-> "ca1"]]]
TrigNoThread ==
    [payload |-> [sender |-> <<"alice@x.com">>, subject |-> <<"Hi">>,
                  message_text |-> <<"Please summarize X">>],
     metadata |-> [connected_account |-> [id |-> "ca1"]]]

TrigEmptyThread ==
    [payload |-> [sender |-> <<"alice@x.com">>, thread_id |-> ""],
     metadata |-> [connected_account |-> [id |-> "ca1"]]]

Triggers == {TrigPlain, TrigDecorated, TrigSelf, TrigNoThread, TrigEmptyThread}

\* the values of the environment variable GMAIL_USER_ID (EmptyStr: not set)
MailboxSet == <<"BOT@X.COM">>
MailboxUnset == EmptyStr

\* a stored history of n records, as earlier turns of a thread left it
SeedHistory(n) ==
    [i \in 1..n |->
        [type |-> IF i % 2 = 1 THEN "HumanMessage" ELSE "AIMessage",
         content |-> <<"m", ToString(i)>>,
         timestamp |-> 0,
         additional_kwargs |-> {}]]

\* the table as the previous runs of the process left it
SeedStore(n) ==
    IF n = 0 THEN {}
    ELSE { Conversation(<<"alice@x.com">>, "t1", <<"alice@x.com">>,
                        json_dumps(SeedHistory(n)), None,
                        json_dumps(EmptyDict), 0, 0) }

\* the process starts on an empty table, on a short thread, or on a thread
\* longer than the window; the mailbox variable may be missing
Setups ==
    { <<0, MailboxSet>>, <<3, MailboxUnset>>,
      <<recent_window_size + 2, MailboxSet>> }

(* ------------------------------- the turn ------------------------------ *)
VARIABLES
    conversations,     \* the table "conversations": a set of rows
    now,               \* datetime.utcnow(), in ticks
    GMAIL_USER_ID,     \* os.getenv('GMAIL_USER_ID', '')
    pc,                \* per turn: where process_email_trigger stands
    trigger_data,      \* per turn: the event handed to the callback
    email_data,        \* per turn: parse_trigger_payload's result
    message_history,   \* per turn: what load_conversation_context returned
    new_message,       \* per turn: the HumanMessage built from the email
    current_messages,  \* per turn
    result_messages,   \* per turn
    agent_response,    \* per turn
    outcome,           \* per turn: how process_email_trigger ended
    reply_calls,       \* per turn: the send_reply calls made, with their result
    api_log,           \* the direct calls of the context manager, with results
    db_pc,             \* per caller: where its database session stands
    db_call,           \* per caller: the store operation it runs
    db_row,            \* per caller: what its query(...).first() returned
    db_write,          \* per caller: the statement flushed and not committed
    db_result,         \* per caller: how its store operation ended
    db_commits         \* the callers whose session committed, in commit order

vars == <<conversations, now, GMAIL_USER_ID, pc, trigger_data, email_data,
          message_history, new_message, current_messages, result_messages,
          agent_response, outcome, reply_calls, api_log,
          db_pc, db_call, db_row, db_write, db_result, db_commits>>

Unset == <<>>

db_vars == <<db_pc, db_call, db_row, db_write, db_result, db_commits>>

\* the callers that hold a database session of their own
Callers == {1, 2}

\* no caller has opened a session
NoSessions ==
    /\ db_pc = [c \in Callers |-> "idle"]
    /\ db_call = [c \in Callers |-> Unset]
    /\ db_row = [c \in Callers |-> Unset]
    /\ db_write = [c \in Callers |-> Unset]
    /\ db_result = [c \in Callers |-> [how |-> "none", value |-> <<>>]]
    /\ db_commits = <<>>

turn_vars == <<GMAIL_USER_ID, pc, trigger_data, email_data, message_history,
               new_message, current_messages, result_messages, agent_response,
               outcome, reply_calls>>

turn_locals == <<message_history, new_message, current_messages,
                 result_messages, agent_response>>


\* what process_email_trigger printed about its end
Outcome(how, at, produced) == [how |-> how, at |-> at, produced |-> produced]

\* is_from_assistant comparing the addresses as written, without .lower()
is_from_assistant_exact(user_id, mailbox) ==
    mailbox # EmptyStr /\ user_id = mailbox

\* agent.py line 32-33: the sender is the assistant's own mailbox
is_from_assistant(user_id, mailbox) ==
    LET inbox_owner_email == str_lower(mailbox) IN
    inbox_owner_email # EmptyStr /\ str_lower(user_id) = inbox_owner_email

\* agent.py line 45-46: the message built from the inbound email
build_new_message(data) ==
    HumanMessage(<<"Process this email and execute the instructions:", "Subject: ">>
                 \o data.subject \o <<"From: ">> \o data.sender_email
                 \o data.body)

\* agent.py line 60-63: the reply text after one more produced message
next_agent_response(response, msg) ==
    IF msg.content # EmptyStr
    THEN IF msg.tool_calls = "absent" \/ msg.tool_calls = "empty"
         THEN msg.content
         ELSE response
    ELSE response

Init ==
    /\ \E setup \in Setups :
          /\ conversations = SeedStore(setup[1])
          /\ GMAIL_USER_ID = setup[2]
    /\ now = 1
    /\ pc = [t \in Turns |-> "idle"]
    /\ trigger_data = [t \in Turns |-> Unset]
    /\ email_data = [t \in Turns |-> Unset]
    /\ message_history = [t \in Turns |-> Unset]
    /\ new_message = [t \in Turns |-> Unset]
    /\ current_messages = [t \in Turns |-> Unset]
    /\ result_messages = [t \in Turns |-> Unset]
    /\ agent_response = [t \in Turns |-> EmptyStr]
    /\ outcome = [t \in Turns |-> Outcome("none", "idle", 0)]
    /\ reply_calls = [t \in Turns |-> <<>>]
    /\ api_log = <<>>
    /\ NoSessions

\* the function returns: its locals are gone.  The outcome is what its output
\* shows: how it ended and, from the printed lines and the traceback, where
\* it stood and how many messages the engine had produced.
Finish(t, how) ==
    /\ pc' = [pc EXCEPT ![t] = "done"]
    /\ outcome' = [outcome EXCEPT ![t] =
          Outcome(how, pc[t],
                  IF pc[t] = "stream" THEN Len(result_messages[t]) ELSE 0)]
    /\ message_history' = [message_history EXCEPT ![t] = Unset]
    /\ new_message' = [new_message EXCEPT ![t] = Unset]
    /\ current_messages' = [current_messages EXCEPT ![t] = Unset]
    /\ result_messages' = [result_messages EXCEPT ![t] = Unset]
    /\ agent_response' = [agent_response EXCEPT ![t] = EmptyStr]
    /\ trigger_data' = [trigger_data EXCEPT ![t] = Unset]
    /\ email_data' = [email_data EXCEPT ![t] = Unset]

\* the handler of "except Exception as e" at the end of process_email_trigger
on_turn_error(t) ==
    /\ Finish(t, "abandoned")
    /\ UNCHANGED <<conversations, now, GMAIL_USER_ID, reply_calls>>

\* the callback fires: parse the trigger, skip the assistant's own mail
Receive(t, trig) ==
    /\ pc[t] = "idle"
    /\ UNCHANGED <<api_log, db_vars>>
    /\ \A s \in Turns : s < t => pc[s] # "idle"
    /\ IF is_from_assistant(parse_trigger_payload(trig).sender_email, GMAIL_USER_ID)
       THEN /\ Finish(t, "skipped")
       ELSE /\ trigger_data' = [trigger_data EXCEPT ![t] = trig]
            /\ email_data' = [email_data EXCEPT ![t] = parse_trigger_payload(trig)]
            /\ pc' = [pc EXCEPT ![t] = "load"]
            /\ UNCHANGED <<outcome, turn_locals>>
    /\ UNCHANGED <<conversations, now, GMAIL_USER_ID, reply_calls>>

\* message_history = context_manager.load_conversation_context(user_id, thread_id)
Load(t) ==
    /\ pc[t] = "load"
    /\ UNCHANGED <<api_log, db_vars>>
    /\ message_history' =
          [message_history EXCEPT ![t] =
              load_conversation_context(conversations, email_data[t].sender_email,
                                        email_data[t].thread_id)]
    /\ pc' = [pc EXCEPT ![t] = "session"]
    /\ UNCHANGED <<conversations, now, GMAIL_USER_ID, trigger_data, email_data,
                   new_message, current_messages, result_messages,
                   agent_response, outcome, reply_calls>>

\* create_session_and_graph returned; the turn's lists are set up
CreateSession(t) ==
    /\ pc[t] = "session"
    /\ UNCHANGED <<api_log, db_vars>>
    /\ new_message' = [new_message EXCEPT ![t] = build_new_message(email_data[t])]
    /\ current_messages' =
          [current_messages EXCEPT ![t] =
              message_history[t] \o <<build_new_message(email_data[t])>>]
    /\ result_messages' = [result_messages EXCEPT ![t] = <<>>]
    /\ agent_response' = [agent_response EXCEPT ![t] = EmptyStr]
    /\ pc' = [pc EXCEPT ![t] = "stream"]
    /\ UNCHANGED <<conversations, now, GMAIL_USER_ID, trigger_data, email_data,
                   message_history, outcome, reply_calls>>

\* EngineEmit without "current_messages.append(msg)"
EngineEmitNoAppend(t, msg) ==
    /\ pc[t] = "stream"
    /\ UNCHANGED <<api_log, db_vars>>
    /\ Len(result_messages[t]) < MaxProduced
    /\ result_messages' = [result_messages EXCEPT ![t] = Append(@, msg)]
    /\ agent_response' =
          [agent_response EXCEPT ![t] = next_agent_response(@, msg)]
    /\ UNCHANGED <<conversations, now, GMAIL_USER_ID, pc, trigger_data,
                   email_data, message_history, new_message, current_messages,
                   outcome, reply_calls>>

\* EngineEmit saving the conversation after every produced message
EngineEmitPersisting(t, msg) ==
    /\ pc[t] = "stream"
    /\ UNCHANGED <<api_log, db_vars>>
    /\ Len(result_messages[t]) < MaxProduced
    /\ result_messages' = [result_messages EXCEPT ![t] = Append(@, msg)]
    /\ current_messages' = [current_messages EXCEPT ![t] = Append(@, msg)]
    /\ agent_response' =
          [agent_response EXCEPT ![t] = next_agent_response(@, msg)]
    /\ IF save_conversation_raises(email_data[t].sender_email, email_data[t].thread_id)
       THEN UNCHANGED <<conversations, now>>
       ELSE /\ conversations' =
                  save_conversation_context(conversations,
                      email_data[t].sender_email, email_data[t].thread_id,
                      email_data[t].sender_email,
                      Append(current_messages[t], msg), None, now)
            /\ now' = now + 1
    /\ UNCHANGED <<GMAIL_USER_ID, pc, trigger_data, email_data,
                   message_history, new_message, outcome, reply_calls>>

\* one message of one event of graph.astream
EngineEmit(t, msg) ==
    /\ pc[t] = "stream"
    /\ UNCHANGED <<api_log, db_vars>>
    /\ Len(result_messages[t]) < MaxProduced
    /\ result_messages' = [result_messages EXCEPT ![t] = Append(@, msg)]
    /\ current_messages' = [current_messages EXCEPT ![t] = Append(@, msg)]
    /\ agent_response' =
          [agent_response EXCEPT ![t] = next_agent_response(@, msg)]
    /\ UNCHANGED <<conversations, now, GMAIL_USER_ID, pc, trigger_data,
                   email_data, message_history, new_message, outcome,
                   reply_calls>>

\* the store, the session creation or the engine raises (at "stream": the
\* engine between two events, or the save, whose transaction is rolled back)
Raise(t) ==
    /\ pc[t] \in {"load", "session", "stream"}
    /\ UNCHANGED <<api_log, db_vars>>
    /\ on_turn_error(t)

\* Save writing the turn's inbound message and engine output after the
\* history read again at the time of the save
SaveOntoStored(t) ==
    /\ pc[t] = "stream"
    /\ UNCHANGED <<api_log, db_vars>>
    /\ IF save_conversation_raises(email_data[t].sender_email, email_data[t].thread_id)
       THEN on_turn_error(t)
       ELSE /\ conversations' =
                  save_conversation_context(conversations,
                      email_data[t].sender_email, email_data[t].thread_id,
                      email_data[t].sender_email,
                      load_conversation_context(conversations,
                          email_data[t].sender_email, email_data[t].thread_id)
                        \o <<new_message[t]>> \o result_messages[t],
                      None, now)
            /\ now' = now + 1
            /\ pc' = [pc EXCEPT ![t] = "reply"]
            /\ message_history' = [message_history EXCEPT ![t] = Unset]
            /\ new_message' = [new_message EXCEPT ![t] = Unset]
            /\ current_messages' = [current_messages EXCEPT ![t] = Unset]
            /\ result_messages' = [result_messages EXCEPT ![t] = Unset]
            /\ UNCHANGED <<GMAIL_USER_ID, trigger_data, email_data,
                           agent_response, outcome, reply_calls>>

\* graph.astream is exhausted; context_manager.save_conversation_context(...)
\* commits, or the database rejects the row (IntegrityError).  The lists are
\* not read after the save.
Save(t) ==
    /\ pc[t] = "stream"
    /\ UNCHANGED <<api_log, db_vars>>
    /\ IF save_conversation_raises(email_data[t].sender_email, email_data[t].thread_id)
       THEN on_turn_error(t)
       ELSE /\ conversations' =
                  save_conversation_context(conversations,
                      email_data[t].sender_email, email_data[t].thread_id,
                      email_data[t].sender_email, current_messages[t], None, now)
            /\ now' = now + 1
            /\ pc' = [pc EXCEPT ![t] = "reply"]
            /\ message_history' = [message_history EXCEPT ![t] = Unset]
            /\ new_message' = [new_message EXCEPT ![t] = Unset]
            /\ current_messages' = [current_messages EXCEPT ![t] = Unset]
            /\ result_messages' = [result_messages EXCEPT ![t] = Unset]
            /\ UNCHANGED <<GMAIL_USER_ID, trigger_data, email_data,
                           agent_response, outcome, reply_calls>>

\* wants_reply with "or" for "and"
wants_reply_either(data, response) ==
    Truthy(data.thread_id) \/ response # EmptyStr

\* the reply branch is taken: "if thread_id and agent_response"
wants_reply(data, response) ==
    Truthy(data.thread_id) /\ response # EmptyStr

\* on_reply_error undoing the turn's save
on_reply_error_rollback(t) ==
    /\ Finish(t, "ok")
    /\ conversations' =
          delete_conversation(conversations, email_data[t].sender_email,
                              email_data[t].thread_id)
    /\ UNCHANGED <<now, GMAIL_USER_ID>>

\* "except Exception as reply_error": print and continue
on_reply_error(t) ==
    /\ Finish(t, "ok")
    /\ UNCHANGED <<conversations, now, GMAIL_USER_ID>>

\* SendReply taken as soon as the engine has produced a reply text
SendReplyEarly(t, delivered) ==
    /\ pc[t] \in {"stream", "reply"}
    /\ UNCHANGED <<api_log, db_vars>>
    /\ wants_reply(email_data[t], agent_response[t])
    /\ reply_calls' =
          [reply_calls EXCEPT ![t] =
              Append(@, [request |-> send_reply(email_data[t].connected_account_id,
                                                email_data[t].thread_id,
                                                email_data[t].sender_email,
                                                agent_response[t]),
                         delivered |-> delivered])]
    /\ IF delivered
       THEN /\ Finish(t, "ok")
            /\ UNCHANGED <<conversations, now, GMAIL_USER_ID>>
       ELSE on_reply_error(t)

\* email_handler.send_reply(...) is called; delivered says whether it returned
SendReply(t, delivered) ==
    /\ pc[t] = "reply"
    /\ UNCHANGED <<api_log, db_vars>>
    /\ wants_reply(email_data[t], agent_response[t])
    /\ reply_calls' =
          [reply_calls EXCEPT ![t] =
              Append(@, [request |-> send_reply(email_data[t].connected_account_id,
                                                email_data[t].thread_id,
                                                email_data[t].sender_email,
                                                agent_response[t]),
                         delivered |-> delivered])]
    /\ IF delivered
       THEN /\ Finish(t, "ok")
            /\ UNCHANGED <<conversations, now, GMAIL_USER_ID>>
       ELSE on_reply_error(t)

\* "Skipping reply - No thread_id or response"
SkipReply(t) ==
    /\ pc[t] = "reply"
    /\ UNCHANGED <<api_log, db_vars>>
    /\ ~wants_reply(email_data[t], agent_response[t])
    /\ Finish(t, "ok")
    /\ UNCHANGED <<conversations, now, GMAIL_USER_ID, reply_calls>>

Next ==
    \/ \E t \in Turns, trig \in Triggers : Receive(t, trig)
    \/ \E t \in Turns : Load(t)
    \/ \E t \in Turns : CreateSession(t)
    \/ \E t \in Turns, msg \in EngineMessages : EngineEmit(t, msg)
    \/ \E t \in Turns : Raise(t)
    \/ \E t \in Turns : Save(t)
    \/ \E t \in Turns, delivered \in BOOLEAN : SendReply(t, delivered)
    \/ \E t \in Turns : SkipReply(t)

Spec == Init /\ [][Next]_vars

(* ------------------ the context manager, called directly --------------- *)
\* number of direct calls in one run
MaxCalls == 2

\* all sequences over S of length at most n
BoundedSeqs(S, n) == UNION {[1..k -> S] : k \in 0..n}

FreeMessages ==
    { HumanMessage(<<"hi">>), AIMessage(<<"Summary: ...">>),
      ToolMessage(<<"tool output">>) }

\* a list of n messages of every kind a turn holds
LongList(n) ==
    [i \in 1..n |->
        CASE i % 4 = 1 -> HumanMessage(<<"x", ToString(i)>>)
          [] i % 4 = 2 -> AIToolCall(<<"x", ToString(i)>>)
          [] i % 4 = 3 -> SystemMessage(<<"x", ToString(i)>>)
          [] OTHER -> AIMessage(<<"x", ToString(i)>>)]

\* the message lists handed to save
SaveLists ==
    BoundedSeqs(FreeMessages, MaxLen)
    \cup {LongList(n) : n \in {recent_window_size, recent_window_size + 1}}

\* the stored history lengths the calls start from
CMSeedLens ==
    {0, 3, recent_window_size, recent_window_size + 1, recent_window_size + 2}

CMThreads == {"t1", "t2"}

InitCM ==
    /\ conversations \in {SeedStore(n) : n \in CMSeedLens}
    /\ now = 1
    /\ GMAIL_USER_ID = MailboxSet
    /\ pc = [t \in Turns |-> "idle"]
    /\ trigger_data = [t \in Turns |-> Unset]
    /\ email_data = [t \in Turns |-> Unset]
    /\ message_history = [t \in Turns |-> Unset]
    /\ new_message = [t \in Turns |-> Unset]
    /\ current_messages = [t \in Turns |-> Unset]
    /\ result_messages = [t \in Turns |-> Unset]
    /\ agent_response = [t \in Turns |-> EmptyStr]
    /\ outcome = [t \in Turns |-> Outcome("none", "idle", 0)]
    /\ reply_calls = [t \in Turns |-> <<>>]
    /\ api_log = <<>>
    /\ NoSessions

\* context_manager.load_conversation_context(user_id, thread_id)
CMLoad(user_id, thread_id) ==
    /\ Len(api_log) < MaxCalls
    /\ api_log' = Append(api_log,
          [op |-> "load", user_id |-> user_id, thread_id |-> thread_id,
           messages |-> load_conversation_context(conversations, user_id, thread_id)])
    /\ UNCHANGED <<conversations, now, turn_vars, db_vars>>

\* context_manager.save_conversation_context(user_id, thread_id, sender, messages)
CMSave(user_id, thread_id, messages) ==
    /\ Len(api_log) < MaxCalls
    /\ conversations' =
          save_conversation_context(conversations, user_id, thread_id, user_id,
                                    messages, None, now)
    /\ now' = now + 1
    /\ api_log' = Append(api_log,
          [op |-> "save", user_id |-> user_id, thread_id |-> thread_id,
           messages |-> messages])
    /\ UNCHANGED <<turn_vars, db_vars>>

NextCM ==
    \/ \E thread_id \in CMThreads : CMLoad(<<"alice@x.com">>, thread_id)
    \/ \E messages \in SaveLists : CMSave(<<"alice@x.com">>, "t1", messages)

SpecCM == InitCM /\ [][NextCM]_vars

(* ------------------ the store under concurrent sessions ---------------- *)
\* Each caller runs one store operation in a session of its own (get_session).
\* The statements of two sessions interleave; a session sees committed rows
\* only, a row written and not yet committed is locked against other writers,
\* and the primary key (user_id, thread_id) is checked when a row is inserted.

\* what a caller passes to save_conversation
DbSender(c) == <<"caller", ToString(c)>>

DbHistory(c) ==
    << [type |-> "HumanMessage", content |-> <<"from caller ", ToString(c)>>,
        timestamp |-> 0, additional_kwargs |-> {}] >>

DbThreads == {"t1", "t2"}

DbPendings == {None, "awaiting_connection"}

DbCalls(c) ==
    { [op |-> "save", user_id |-> <<"alice@x.com">>, thread_id |-> th,
       sender_email |-> DbSender(c), message_history |-> DbHistory(c),
       pending_action |-> p, context |-> EmptyDict]
        : th \in DbThreads, p \in DbPendings }
    \cup
    { [op |-> o, user_id |-> <<"alice@x.com">>, thread_id |-> "t1",
       sender_email |-> EmptyStr, message_history |-> <<>>,
       pending_action |-> None, context |-> EmptyDict]
        : o \in {"get", "delete", "list"} }

DbSeedLens == {0, 3}

\* ConversationStore.get_user_conversations: newest update first
get_user_conversations(tbl, user_id) ==
    LET rows == {r \in tbl : r.user_id = user_id}
        n == Cardinality(rows)
        ordered == CHOOSE s \in [1..n -> rows] :
                      /\ \A i, j \in 1..n : i # j => s[i] # s[j]
                      /\ \A i, j \in 1..n : i < j => s[i].updated_at >= s[j].updated_at
    IN  [i \in 1..n |->
            [user_id |-> ordered[i].user_id,
             thread_id |-> ordered[i].thread_id,
             sender_email |-> ordered[i].sender_email,
             message_history |-> json_loads(ordered[i].message_history),
             pending_action |-> ordered[i].pending_action,
             context |-> json_loads(ordered[i].context),
             created_at |-> ordered[i].created_at,
             updated_at |-> ordered[i].updated_at]]

\* the rows another session must not write while this statement is uncommitted
write_locks(write) ==
    IF write = <<>> THEN {}
    ELSE IF write[1].kind = "delete"
         THEN {<<r.user_id, r.thread_id>> : r \in write[1].old}
         ELSE {<<r.user_id, r.thread_id>> : r \in write[1].new}

\* a statement on this key waits for the session that holds the row
db_blocked(c, user_id, thread_id) ==
    \E d \in Callers \ {c} : <<user_id, thread_id>> \in write_locks(db_write[d])

\* the table with a session's statement applied
db_apply(tbl, write) ==
    IF write = <<>> THEN tbl ELSE (tbl \ write[1].old) \cup write[1].new

\* the primary key of Conversation: no second row for (user_id, thread_id)
primary_key_absent(tbl, user_id, thread_id) == TRUE

primary_key_free(tbl, user_id, thread_id) ==
    filter_by(tbl, user_id, thread_id) = {}

\* the UPDATE that the unit of work emits for the attributes assigned in
\* save_conversation: an attribute assigned the value it was loaded with is
\* not written, updated_at always is; the statement acts on the committed row
db_update(current, loaded, call, clock) ==
    Conversation(current.user_id, current.thread_id,
        IF call.sender_email # loaded.sender_email
            THEN call.sender_email ELSE current.sender_email,
        IF json_dumps(call.message_history) # loaded.message_history
            THEN json_dumps(call.message_history) ELSE current.message_history,
        IF call.pending_action # loaded.pending_action
            THEN call.pending_action ELSE current.pending_action,
        IF json_dumps(call.context) # loaded.context
            THEN json_dumps(call.context) ELSE current.context,
        current.created_at, clock)

InitDB ==
    /\ conversations \in {SeedStore(n) : n \in DbSeedLens}
    /\ now = 1
    /\ GMAIL_USER_ID = MailboxSet
    /\ pc = [t \in Turns |-> "idle"]
    /\ trigger_data = [t \in Turns |-> Unset]
    /\ email_data = [t \in Turns |-> Unset]
    /\ message_history = [t \in Turns |-> Unset]
    /\ new_message = [t \in Turns |-> Unset]
    /\ current_messages = [t \in Turns |-> Unset]
    /\ result_messages = [t \in Turns |-> Unset]
    /\ agent_response = [t \in Turns |-> EmptyStr]
    /\ outcome = [t \in Turns |-> Outcome("none", "idle", 0)]
    /\ reply_calls = [t \in Turns |-> <<>>]
    /\ api_log = <<>>
    /\ NoSessions

\* get_session: session = SessionLocal(), the body of the with-block begins
DbBegin(c, call) ==
    /\ db_pc[c] = "idle"
    /\ db_pc' = [db_pc EXCEPT ![c] = "query"]
    /\ db_call' = [db_call EXCEPT ![c] = call]
    /\ UNCHANGED <<conversations, now, turn_vars, api_log,
                   db_row, db_write, db_result, db_commits>>

\* get_session, except-branch: session.rollback(); raise
on_session_error_commit(c, error) ==
    /\ db_pc' = [db_pc EXCEPT ![c] = "done"]
    /\ db_write' = [db_write EXCEPT ![c] = <<>>]
    /\ db_result' = [db_result EXCEPT ![c] = [how |-> "raised", value |-> <<error>>]]
    /\ conversations' = db_apply(conversations, db_write[c])
    /\ UNCHANGED <<turn_vars, api_log, db_call, db_row, db_commits>>

on_session_error(c, error) ==
    /\ db_pc' = [db_pc EXCEPT ![c] = "done"]
    /\ db_write' = [db_write EXCEPT ![c] = <<>>]
    /\ db_result' = [db_result EXCEPT ![c] = [how |-> "raised", value |-> <<error>>]]
    /\ UNCHANGED <<conversations, turn_vars, api_log, db_call, db_row, db_commits>>

\* the statement in the body of the with-block: the SELECT of get_conversation,
\* save_conversation and get_user_conversations, the DELETE of
\* delete_conversation
DbQuery(c) ==
    /\ db_pc[c] = "query"
    /\ LET call == db_call[c] IN
       CASE call.op = "save" ->
              /\ db_row' = [db_row EXCEPT ![c] =
                    IF filter_by(conversations, call.user_id, call.thread_id) = {}
                    THEN <<>>
                    ELSE << CHOOSE r \in filter_by(conversations, call.user_id,
                                                   call.thread_id) : TRUE >>]
              /\ db_pc' = [db_pc EXCEPT ![c] = "flush"]
              /\ UNCHANGED <<db_write, db_result>>
         [] call.op = "get" ->
              /\ db_result' = [db_result EXCEPT ![c] =
                    [how |-> "returned",
                     value |-> get_conversation(conversations, call.user_id,
                                                call.thread_id)]]
              /\ db_pc' = [db_pc EXCEPT ![c] = "commit"]
              /\ UNCHANGED <<db_write, db_row>>
         [] call.op = "list" ->
              /\ db_result' = [db_result EXCEPT ![c] =
                    [how |-> "returned",
                     value |-> get_user_conversations(conversations, call.user_id)]]
              /\ db_pc' = [db_pc EXCEPT ![c] = "commit"]
              /\ UNCHANGED <<db_write, db_row>>
         [] call.op = "delete" ->
              /\ ~db_blocked(c, call.user_id, call.thread_id)
              /\ db_write' = [db_write EXCEPT ![c] =
                    << [kind |-> "delete",
                        old |-> filter_by(conversations, call.user_id, call.thread_id),
                        new |-> {}] >>]
              /\ db_pc' = [db_pc EXCEPT ![c] = "commit"]
              /\ UNCHANGED <<db_row, db_result>>
    /\ UNCHANGED <<conversations, now, turn_vars, api_log, db_call, db_commits>>

\* session.commit() of save_conversation, first half: the unit of work is
\* flushed.  A row found by the query is updated (no row left to update: the
\* flush raises); otherwise the new row is inserted (key taken: the flush
\* raises).  A failed flush ends in get_session's except-branch.
DbFlush(c) ==
    /\ db_pc[c] = "flush"
    /\ LET call == db_call[c]
           current == filter_by(conversations, call.user_id, call.thread_id)
       IN
       /\ ~db_blocked(c, call.user_id, call.thread_id)
       /\ IF db_row[c] # <<>>
          THEN IF current = {}
               THEN on_session_error(c, "StaleDataError") /\ UNCHANGED now
               ELSE /\ db_write' = [db_write EXCEPT ![c] =
                          << [kind |-> "update", old |-> current,
                              new |-> { db_update(CHOOSE r \in current : TRUE,
                                                  db_row[c][1], call, now) }] >>]
                    /\ db_pc' = [db_pc EXCEPT ![c] = "commit"]
                    /\ now' = now + 1
                    /\ UNCHANGED <<conversations, turn_vars, api_log, db_call,
                                   db_row, db_result, db_commits>>
          ELSE IF ~primary_key_free(conversations, call.user_id, call.thread_id)
               THEN on_session_error(c, "IntegrityError") /\ UNCHANGED now
               ELSE /\ db_write' = [db_write EXCEPT ![c] =
                          << [kind |-> "insert", old |-> {},
                              new |-> { Conversation(call.user_id, call.thread_id,
                                           call.sender_email,
                                           json_dumps(call.message_history),
                                           call.pending_action,
                                           json_dumps(call.context), now, now) }] >>]
                    /\ db_pc' = [db_pc EXCEPT ![c] = "commit"]
                    /\ now' = now + 1
                    /\ UNCHANGED <<conversations, turn_vars, api_log, db_call,
                                   db_row, db_result, db_commits>>

\* session.commit(), second half: the statement becomes visible to all
DbCommit(c) ==
    /\ db_pc[c] = "commit"
    /\ conversations' = db_apply(conversations, db_write[c])
    /\ db_write' = [db_write EXCEPT ![c] = <<>>]
    /\ db_commits' = Append(db_commits, c)
    /\ db_result' = [db_result EXCEPT ![c] =
          IF db_result[c].how = "none"
          THEN [how |-> "ok", value |-> <<>>] ELSE db_result[c]]
    /\ db_pc' = [db_pc EXCEPT ![c] = "done"]
    /\ UNCHANGED <<now, turn_vars, api_log, db_call, db_row>>

\* an exception inside the with-block or in session.commit() (the connection
\* is lost, the server cancels the statement)
DbFail(c) ==
    /\ db_pc[c] \in {"query", "flush", "commit"}
    /\ on_session_error(c, "OperationalError")
    /\ UNCHANGED now

NextDB ==
    \/ \E c \in Callers : \E call \in DbCalls(c) : DbBegin(c, call)
    \/ \E c \in Callers : DbQuery(c)
    \/ \E c \in Callers : DbFlush(c)
    \/ \E c \in Callers : DbCommit(c)
    \/ \E c \in Callers : DbFail(c)

SpecDB == InitDB /\ [][NextDB]_vars

(* -------------------- the store, one call after another ---------------- *)
\* The operations of ConversationStore and of the context manager on stored
\* conversations, called one at a time; api_log keeps each call and its result.

StoreUsers == {<<"alice@x.com">>, <<"bob@x.com">>}

StoreKeys ==
    {<<(<<"alice@x.com">>), "t1">>, <<(<<"alice@x.com">>), "t2">>,
     <<(<<"bob@x.com">>), "t1">>}

\* message lists as a caller of save_conversation may pass them: dicts as
\* _serialize_messages writes them, a dict of a type no branch knows, a dict
\* with no "type" key
StoreHistory(d) ==
    IF d = 1
    THEN << [type |-> "HumanMessage", content |-> <<"hi">>, timestamp |-> 0,
             additional_kwargs |-> {}] >>
    ELSE << [type |-> "FunctionMessage", content |-> <<"fn output">>,
             timestamp |-> 0, additional_kwargs |-> {}],
            [content |-> <<"untyped">>, timestamp |-> 0],
            [type |-> "AIMessage", content |-> <<"Summary: ...">>,
             timestamp |-> 0, additional_kwargs |-> {}],
            [type |-> "SystemMessage", content |-> <<"be brief">>,
             timestamp |-> 0, additional_kwargs |-> {}] >>

StoreSender(d) == IF d = 1 THEN <<"alice@x.com">> ELSE <<"Alice@X.com">>

StoreData == {1, 2}

StorePendings == {None, "awaiting_connection"}

\* the context argument: omitted, or a map
StoreContexts == { <<>>, << [topic |-> <<"travel">>] >> }

\* a stored conversation with a pending action, a context and n messages
SeedPending(n) ==
    { Conversation(<<"alice@x.com">>, "t1", <<"alice@x.com">>,
                   json_dumps(SeedHistory(n)), "awaiting_connection",
                   json_dumps([topic |-> <<"travel">>]), 0, 0) }

StoreSeeds == { SeedStore(0), SeedPending(recent_window_size + 2) }

InitStore ==
    /\ conversations \in StoreSeeds
    /\ now = 1
    /\ GMAIL_USER_ID = MailboxSet
    /\ pc = [t \in Turns |-> "idle"]
    /\ trigger_data = [t \in Turns |-> Unset]
    /\ email_data = [t \in Turns |-> Unset]
    /\ message_history = [t \in Turns |-> Unset]
    /\ new_message = [t \in Turns |-> Unset]
    /\ current_messages = [t \in Turns |-> Unset]
    /\ result_messages = [t \in Turns |-> Unset]
    /\ agent_response = [t \in Turns |-> EmptyStr]
    /\ outcome = [t \in Turns |-> Outcome("none", "idle", 0)]
    /\ reply_calls = [t \in Turns |-> <<>>]
    /\ api_log = <<>>
    /\ NoSessions

\* db.save_conversation(user_id, thread_id, sender_email, message_history,
\*                      pending_action[, context])
StoreSave(user_id, thread_id, sender_email, history, pending_action, context) ==
    /\ Len(api_log) < MaxCalls
    /\ conversations' =
          save_conversation(conversations, user_id, thread_id, sender_email,
                            history, pending_action,
                            context_or_default(context), now)
    /\ now' = now + 1
    /\ api_log' = Append(api_log,
          [op |-> "upsert", user_id |-> user_id, thread_id |-> thread_id,
           sender_email |-> sender_email, message_history |-> history,
           pending_action |-> pending_action, context |-> context])
    /\ UNCHANGED <<turn_vars, db_vars>>

\* db.get_conversation(user_id, thread_id)
StoreGet(user_id, thread_id) ==
    /\ Len(api_log) < MaxCalls
    /\ api_log' = Append(api_log,
          [op |-> "get", user_id |-> user_id, thread_id |-> thread_id,
           result |-> get_conversation(conversations, user_id, thread_id)])
    /\ UNCHANGED <<conversations, now, turn_vars, db_vars>>

\* db.get_user_conversations(user_id)
StoreList(user_id) ==
    /\ Len(api_log) < MaxCalls
    /\ api_log' = Append(api_log,
          [op |-> "list", user_id |-> user_id,
           result |-> get_user_conversations(conversations, user_id)])
    /\ UNCHANGED <<conversations, now, turn_vars, db_vars>>

\* db.delete_conversation(user_id, thread_id)
StoreDelete(user_id, thread_id) ==
    /\ Len(api_log) < MaxCalls
    /\ conversations' = delete_conversation(conversations, user_id, thread_id)
    /\ api_log' = Append(api_log,
          [op |-> "delete", user_id |-> user_id, thread_id |-> thread_id])
    /\ UNCHANGED <<now, turn_vars, db_vars>>

\* context_manager.clear_pending_action(user_id, thread_id)
StoreClearPending(user_id, thread_id) ==
    /\ Len(api_log) < MaxCalls
    /\ conversations' = clear_pending_action(conversations, user_id, thread_id, now)
    /\ now' = now + 1
    /\ api_log' = Append(api_log,
          [op |-> "clear", user_id |-> user_id, thread_id |-> thread_id])
    /\ UNCHANGED <<turn_vars, db_vars>>

\* context_manager.get_pending_action(user_id, thread_id)
StoreGetPending(user_id, thread_id) ==
    /\ Len(api_log) < MaxCalls
    /\ api_log' = Append(api_log,
          [op |-> "get_pending", user_id |-> user_id, thread_id |-> thread_id,
           result |-> get_pending_action(conversations, user_id, thread_id)])
    /\ UNCHANGED <<conversations, now, turn_vars, db_vars>>

NextStore ==
    \/ \E k \in StoreKeys, d \in StoreData, p \in StorePendings, ctx \in StoreContexts :
          StoreSave(k[1], k[2], StoreSender(d), StoreHistory(d), p, ctx)
    \/ \E k \in StoreKeys : StoreGet(k[1], k[2])
    \/ \E user_id \in StoreUsers : StoreList(user_id)
    \/ \E k \in StoreKeys : StoreDelete(k[1], k[2])
    \/ \E k \in StoreKeys : StoreClearPending(k[1], k[2])
    \/ \E k \in StoreKeys : StoreGetPending(k[1], k[2])
    \/ \E k \in StoreKeys : CMLoad(k[1], k[2])

SpecStore == InitStore /\ [][NextStore]_vars

(* ----------------------- the trigger payloads, parsed ------------------ *)
\* Every payload of a bounded family is parsed by a direct call of
\* parse_trigger_payload, recorded in api_log, and is then delivered to the
\* callback, whose turn runs with an engine that produces nothing.

MaxSenderLen == 4

\* the pieces a sender string is made of
SenderTokens == {"Alice ", "<", "alice@x.com", ">"}

SenderStrings == {SubSeq(s, 1, Len(s)) : s \in BoundedSeqs(SenderTokens, MaxSenderLen)}

\* the keys a trigger event may lack
OptionalFields ==
    {"payload", "sender", "subject", "message_text", "thread_id", "message_id",
     "metadata", "connected_account", "id"}

\* dict d without the keys in absent
WithoutKeys(d, absent) == [k \in (DOMAIN d) \ absent |-> d[k]]

\* the complete event TrigPlain with the keys in absent left out
TrigWithout(absent) ==
    LET payload == WithoutKeys(TrigPlain.payload, absent)
        connected_account == WithoutKeys(TrigPlain.metadata.connected_account, absent)
        metadata == [k \in {"connected_account"} \ absent |-> connected_account]
    IN  [k \in {"payload", "metadata"} \ absent |->
            IF k = "payload" THEN payload ELSE metadata]

\* the complete event with another sender string
TrigFrom(sender_full) ==
    [payload |-> [sender |-> sender_full, subject |-> <<"Hi">>,
                  message_text |-> <<"Please summarize X">>,
                  thread_id |-> "t1", message_id |-> "m1"],
     metadata |-> [connected_account |-> [id |-> "ca1"]]]

ParseTriggers ==
    {TrigFrom(s) : s \in SenderStrings}
    \cup {TrigWithout(absent) : absent \in SUBSET OptionalFields}
    \cup {TrigSelf}

InitParse ==
    /\ conversations = SeedStore(3)
    /\ now = 1
    /\ GMAIL_USER_ID = MailboxSet
    /\ pc = [t \in Turns |-> "idle"]
    /\ trigger_data = [t \in Turns |-> Unset]
    /\ email_data = [t \in Turns |-> Unset]
    /\ message_history = [t \in Turns |-> Unset]
    /\ new_message = [t \in Turns |-> Unset]
    /\ current_messages = [t \in Turns |-> Unset]
    /\ result_messages = [t \in Turns |-> Unset]
    /\ agent_response = [t \in Turns |-> EmptyStr]
    /\ outcome = [t \in Turns |-> Outcome("none", "idle", 0)]
    /\ reply_calls = [t \in Turns |-> <<>>]
    /\ api_log = <<>>
    /\ NoSessions

\* email_handler.parse_trigger_payload(trigger_data), called directly
ParseCall(trig) ==
    /\ api_log = <<>>
    /\ api_log' = <<[op |-> "parse", trigger_data |-> trig,
                     result |-> parse_trigger_payload(trig)]>>
    /\ UNCHANGED <<conversations, now, turn_vars, db_vars>>

NextParse ==
    \/ \E trig \in ParseTriggers : ParseCall(trig)
    \/ \E trig \in ParseTriggers :
          /\ api_log # <<>>
          /\ api_log[1].trigger_data = trig
          /\ Receive(1, trig)
    \/ Load(1)
    \/ CreateSession(1)
    \/ Save(1)
    \/ SkipReply(1)

SpecParse == InitParse /\ [][NextParse]_vars

(* --------------------- two turns on one conversation ------------------- *)
\* Two events arrive close together; the listener runs a callback for each
\* and nothing orders the two turns.  The conversation of alice@x.com on
\* thread t1 exists, with a pending action and a context.

\* a second email on the thread of TrigPlain
TrigAgain ==
    [payload |-> [sender |-> <<"alice@x.com">>, subject |-> <<"Re: Hi">>,
                  message_text |-> <<"And also Y">>,
                  thread_id |-> "t1", message_id |-> "m4"],
     metadata |-> [connected_account |-> [id |-> "ca1"]]]

\* two emails on one thread, one on another thread of another sender
RaceTriggers == {TrigPlain, TrigAgain, TrigDecorated}

\* what the engine streams in these turns
RaceMessages == { AIMessage(<<"Summary: ...">>), AIToolCall(EmptyStr) }

InitRace ==
    /\ conversations = SeedPending(3)
    /\ now = 1
    /\ GMAIL_USER_ID = MailboxSet
    /\ pc = [t \in Turns |-> "idle"]
    /\ trigger_data = [t \in Turns |-> Unset]
    /\ email_data = [t \in Turns |-> Unset]
    /\ message_history = [t \in Turns |-> Unset]
    /\ new_message = [t \in Turns |-> Unset]
    /\ current_messages = [t \in Turns |-> Unset]
    /\ result_messages = [t \in Turns |-> Unset]
    /\ agent_response = [t \in Turns |-> EmptyStr]
    /\ outcome = [t \in Turns |-> Outcome("none", "idle", 0)]
    /\ reply_calls = [t \in Turns |-> <<>>]
    /\ api_log = <<>>
    /\ NoSessions

NextRace ==
    \/ \E t \in Turns, trig \in RaceTriggers : Receive(t, trig)
    \/ \E t \in Turns : Load(t)
    \/ \E t \in Turns : CreateSession(t)
    \/ \E t \in Turns, msg \in RaceMessages : EngineEmit(t, msg)
    \/ \E t \in Turns : Raise(t)
    \/ \E t \in Turns : Save(t)
    \/ \E t \in Turns, delivered \in BOOLEAN : SendReply(t, delivered)
    \/ \E t \in Turns : SkipReply(t)

SpecRace == InitRace /\ [][NextRace]_vars

(* -------------- messages with auxiliary fields, saved and loaded ------- *)
\* The context manager called directly with messages that carry
\* additional_kwargs, and with the list a load returned.

\* a user message with an attachment reference in its additional_kwargs
HumanWithAttachment ==
    [HumanMessage(<<"see attachment">>) EXCEPT !.additional_kwargs = {"attachment"}]

AuxMessages ==
    { HumanMessage(<<"hi">>), HumanWithAttachment, AIToolCall(<<"Looking it up">>) }

AuxLists == BoundedSeqs(AuxMessages, MaxLen) \ {<<>>}

InitAux ==
    /\ conversations = SeedStore(0)
    /\ now = 1
    /\ GMAIL_USER_ID = MailboxSet
    /\ pc = [t \in Turns |-> "idle"]
    /\ trigger_data = [t \in Turns |-> Unset]
    /\ email_data = [t \in Turns |-> Unset]
    /\ message_history = [t \in Turns |-> Unset]
    /\ new_message = [t \in Turns |-> Unset]
    /\ current_messages = [t \in Turns |-> Unset]
    /\ result_messages = [t \in Turns |-> Unset]
    /\ agent_response = [t \in Turns |-> EmptyStr]
    /\ outcome = [t \in Turns |-> Outcome("none", "idle", 0)]
    /\ reply_calls = [t \in Turns |-> <<>>]
    /\ api_log = <<>>
    /\ NoSessions

NextAux ==
    \/ \E messages \in AuxLists : CMSave(<<"alice@x.com">>, "t1", messages)
    \/ \E thread_id \in CMThreads : CMLoad(<<"alice@x.com">>, thread_id)
    \/ /\ api_log # <<>>
       /\ api_log[Len(api_log)].op = "load"
       /\ CMSave(<<"alice@x.com">>, "t1", api_log[Len(api_log)].messages)

SpecAux == InitAux /\ [][NextAux]_vars

(* ------------- a turn on a conversation with state set on it ----------- *)
\* One turn runs while the store and the context manager are also called
\* directly: a pending action and a context are set on the conversation with
\* save_conversation, and cleared with clear_pending_action.

PendingTriggers == {TrigPlain, TrigDecorated}

PendingSeeds == { SeedStore(0), SeedPending(3) }

InitPending ==
    /\ conversations \in PendingSeeds
    /\ now = 1
    /\ GMAIL_USER_ID = MailboxSet
    /\ pc = [t \in Turns |-> "idle"]
    /\ trigger_data = [t \in Turns |-> Unset]
    /\ email_data = [t \in Turns |-> Unset]
    /\ message_history = [t \in Turns |-> Unset]
    /\ new_message = [t \in Turns |-> Unset]
    /\ current_messages = [t \in Turns |-> Unset]
    /\ result_messages = [t \in Turns |-> Unset]
    /\ agent_response = [t \in Turns |-> EmptyStr]
    /\ outcome = [t \in Turns |-> Outcome("none", "idle", 0)]
    /\ reply_calls = [t \in Turns |-> <<>>]
    /\ api_log = <<>>
    /\ NoSessions

NextPending ==
    \/ \E trig \in PendingTriggers : Receive(1, trig)
    \/ Load(1)
    \/ CreateSession(1)
    \/ \E msg \in RaceMessages : EngineEmit(1, msg)
    \/ Raise(1)
    \/ Save(1)
    \/ \E delivered \in BOOLEAN : SendReply(1, delivered)
    \/ SkipReply(1)
    \/ \E p \in StorePendings, ctx \in StoreContexts :
          StoreSave(<<"alice@x.com">>, "t1", StoreSender(1), StoreHistory(1), p, ctx)
    \/ StoreClearPending(<<"alice@x.com">>, "t1")

SpecPending == InitPending /\ [][NextPending]_vars

(* ------------------------------- claims -------------------------------- *)
\* the stored message list of a key (<<>> when the key has no row)
StoredHistory(tbl, user_id, thread_id) ==
    IF filter_by(tbl, user_id, thread_id) = {}
    THEN <<>>
    ELSE json_loads((CHOOSE r \in filter_by(tbl, user_id, thread_id) : TRUE).message_history)

\* turn t commits its save in this step
SaveCommits(t) == pc[t] = "stream" /\ pc'[t] = "reply"

\* record i of stored carries message i of msgs
SameMessages(stored, msgs) ==
    /\ Len(stored) = Len(msgs)
    /\ \A i \in 1..Len(msgs) :
          /\ stored[i].type = msgs[i].cls
          /\ stored[i].content = msgs[i].content
          /\ stored[i].additional_kwargs = msgs[i].additional_kwargs

\* C1: when a turn's save commits, the history stored for (user, thread) is
\* the window that load returned, then the one inbound user message, then
\* every message the engine produced, in order, in exactly one row.  On a new
\* thread where the engine produced one assistant message with text, that is
\* 2 records (user, assistant), the assistant text is the turn's reply text,
\* and the turn's reply step calls send_reply exactly once with that text,
\* to the parsed sender, on the trigger's thread.
C1_TurnPersistsWindowInboundProduced ==
    [][\A t \in Turns :
        /\ SaveCommits(t) =>
             LET user_id == email_data[t].sender_email
                 thread_id == email_data[t].thread_id
                 stored == StoredHistory(conversations', user_id, thread_id)
             IN  /\ Cardinality(filter_by(conversations', user_id, thread_id)) = 1
                 /\ new_message[t].cls = "HumanMessage"
                 /\ SameMessages(stored,
                        message_history[t] \o <<new_message[t]>> \o result_messages[t])
                 /\ ( /\ message_history[t] = <<>>
                      /\ Len(result_messages[t]) = 1
                      /\ result_messages[t][1].cls = "AIMessage"
                      /\ result_messages[t][1].tool_calls = "empty"
                      /\ result_messages[t][1].content # EmptyStr )
                    => /\ Len(stored) = 2
                       /\ stored[1].type = "HumanMessage"
                       /\ stored[2].type = "AIMessage"
                       /\ agent_response'[t] = stored[2].content
        /\ (pc[t] = "reply" /\ pc'[t] = "done" /\ Truthy(email_data[t].thread_id)
              /\ agent_response[t] # EmptyStr) =>
             /\ Len(reply_calls'[t]) = 1
             /\ reply_calls'[t][1].request.arguments.message_body = agent_response[t]
             /\ reply_calls'[t][1].request.arguments.recipient_email
                   = email_data[t].sender_email
             /\ reply_calls'[t][1].request.arguments.thread_id
                   = email_data[t].thread_id
      ]_vars

\* C1 witness: a finished turn on a new thread left 2 records (user,
\* assistant) and sent the assistant's text to that sender on that thread
C1_Witness ==
    \E t \in Turns, r \in conversations :
        /\ outcome[t].how = "ok"
        /\ Len(reply_calls[t]) = 1
        /\ Len(json_loads(r.message_history)) = 2
        /\ json_loads(r.message_history)[1].type = "HumanMessage"
        /\ json_loads(r.message_history)[2].type = "AIMessage"
        /\ reply_calls[t][1].request.arguments.message_body
              = json_loads(r.message_history)[2].content
        /\ reply_calls[t][1].request.arguments.recipient_email = r.user_id
        /\ reply_calls[t][1].request.arguments.thread_id = r.thread_id

\* C2 (as claimed): a turn's save only appends: the list stored before it
\* is, message for message, the beginning of the list stored after it
C2_TurnOnlyAppends ==
    [][\A t \in Turns :
        SaveCommits(t) =>
            LET before == StoredHistory(conversations, email_data[t].sender_email,
                                        email_data[t].thread_id)
                after == StoredHistory(conversations', email_data[t].sender_email,
                                       email_data[t].thread_id)
            IN  /\ Len(before) <= Len(after)
                /\ \A i \in 1..Len(before) : after[i].content = before[i].content
      ]_vars

\* the role tags _deserialize_messages knows
RecognizedTypes == {"HumanMessage", "AIMessage", "SystemMessage"}

\* message msg is stored record rec as load hands it out: same content, and
\* the same role when the record's tag is a known one
LoadedFrom(msg, rec) ==
    /\ msg.content = rec.content
    /\ rec.type \in RecognizedTypes => msg.cls = rec.type
    /\ msg.cls \in RecognizedTypes

\* the last direct call was a load
LastIsLoad == api_log # <<>> /\ api_log[Len(api_log)].op = "load"
LastCall == api_log[Len(api_log)]

\* C3: load on a history of n > recent_window_size records returns exactly
\* recent_window_size messages, the records n-W+1 .. n in their order
C3_LoadReturnsLastWindow ==
    LastIsLoad =>
        LET stored == StoredHistory(conversations, LastCall.user_id, LastCall.thread_id)
            n == Len(stored)
        IN  n > recent_window_size =>
              /\ Len(LastCall.messages) = recent_window_size
              /\ \A i \in 1..recent_window_size :
                    LoadedFrom(LastCall.messages[i], stored[n - recent_window_size + i])

\* C3 witness: 12 stored records, load returned records 3..12
C3_Witness ==
    /\ LastIsLoad
    /\ Len(StoredHistory(conversations, LastCall.user_id, LastCall.thread_id))
          = recent_window_size + 2
    /\ Len(LastCall.messages) = recent_window_size
    /\ LastCall.messages[1].content = <<"m", "3">>
    /\ LastCall.messages[recent_window_size].content = <<"m", "12">>

\* this step is a direct load
LoadStep ==
    /\ Len(api_log') = Len(api_log) + 1
    /\ api_log'[Len(api_log')].op = "load"

C5_SaveLoadKeepsRoleAndContent ==
    \A k \in 1..(Len(api_log) - 1) :
        ( /\ api_log[k].op = "save" /\ api_log[k+1].op = "load"
          /\ api_log[k].user_id = api_log[k+1].user_id
          /\ api_log[k].thread_id = api_log[k+1].thread_id
          /\ Len(api_log[k].messages) <= recent_window_size )
        => /\ Len(api_log[k+1].messages) = Len(api_log[k].messages)
           /\ \A i \in 1..Len(api_log[k].messages) :
                 /\ api_log[k+1].messages[i].cls = api_log[k].messages[i].cls
                 /\ api_log[k+1].messages[i].content = api_log[k].messages[i].content


\* two addresses are equal ignoring letter case
EqIgnoreCase(a, b) == str_lower(a) = str_lower(b)

\* the parsed sender is the configured mailbox address
SenderIsMailbox(sender_email) ==
    GMAIL_USER_ID # EmptyStr /\ EqIgnoreCase(sender_email, GMAIL_USER_ID)

\* turn t takes its trigger in this step
Receives(t) == pc[t] = "idle" /\ pc'[t] # "idle"

\* C6: a trigger whose parsed sender equals the configured mailbox address
\* ignoring case is a no-op: only triggers from other senders go on to load
\* (and so to the engine and the reply); every other trigger ends in the
\* receiving step, skipped, with the table and the reply calls as they were
C6_OwnMailIsSkipped ==
    [][\A t \in Turns :
        Receives(t) =>
          /\ pc'[t] = "load" => ~SenderIsMailbox(email_data'[t].sender_email)
          /\ pc'[t] # "load" =>
                /\ pc'[t] = "done"
                /\ outcome'[t].how = "skipped"
                /\ conversations' = conversations
                /\ reply_calls' = reply_calls
      ]_vars

\* C6 witness: with the mailbox configured, a turn was skipped while the
\* table is as the process found it and no reply call was made
C6_Witness ==
    \E t \in Turns :
        /\ GMAIL_USER_ID = MailboxSet
        /\ outcome[t].how = "skipped"
        /\ reply_calls[t] = <<>>
        /\ conversations = SeedStore(recent_window_size + 2)

\* C7: an abandoned turn leaves no trace.  The table changes only in the
\* committing save of a turn; a turn that has committed its save never ends
\* abandoned; the abandoning step changes neither the table nor the reply
\* calls, the turn has made no reply call, and the error is caught (the turn
\* ends "abandoned", never with the exception leaving the handler)
C7_AbandonedTurnLeavesNoTrace ==
    [][\A t \in Turns :
        /\ conversations' # conversations => \E s \in Turns : SaveCommits(s)
        /\ pc[t] = "reply" => outcome'[t].how # "abandoned"
        /\ (pc[t] # "done" /\ pc'[t] = "done") =>
              outcome'[t].how \in {"ok", "skipped", "abandoned"}
        /\ (outcome[t].how # "abandoned" /\ outcome'[t].how = "abandoned") =>
              /\ conversations' = conversations
              /\ reply_calls' = reply_calls
              /\ reply_calls[t] = <<>>
      ]_vars

\* C7 witness: a turn was abandoned in the engine loop after the engine had
\* produced messages, and it made no reply call
C7_Witness ==
    \E t \in Turns :
        /\ outcome[t].how = "abandoned"
        /\ outcome[t].at = "stream"
        /\ outcome[t].produced > 0
        /\ reply_calls[t] = <<>>
        /\ conversations = {}

\* the send_reply call of turn t raises in this step
ReplyFails(t) ==
    /\ pc[t] = "reply"
    /\ Len(reply_calls'[t]) = Len(reply_calls[t]) + 1
    /\ ~reply_calls'[t][Len(reply_calls'[t])].delivered

\* C8: when send_reply raises, the table is left as it is (the row saved
\* earlier in the turn is neither removed nor altered) and the turn ends
\* normally
C8_ReplyFailureKeepsSavedRow ==
    [][\A t \in Turns :
        ReplyFails(t) =>
          /\ conversations' = conversations
          /\ filter_by(conversations', email_data[t].sender_email,
                       email_data[t].thread_id) # {}
          /\ pc'[t] = "done"
          /\ outcome'[t].how = "ok"
      ]_vars

\* C8 witness: a turn ended normally after its one reply call failed, and the
\* row of that sender and thread is in the table
C8_Witness ==
    \E t \in Turns :
        /\ outcome[t].how = "ok"
        /\ Len(reply_calls[t]) = 1
        /\ ~reply_calls[t][1].delivered
        /\ filter_by(conversations,
                     reply_calls[t][1].request.arguments.recipient_email,
                     reply_calls[t][1].request.arguments.thread_id) # {}

\* turn t passes its reply step
ReplyStep(t) == pc[t] = "reply" /\ pc'[t] = "done"

\* C9: after the save, send_reply is called iff the trigger has a thread id
\* and the reply text is non-empty; then it is called once, with the parsed
\* sender as recipient, the trigger's thread, the trigger's connected-account
\* handle and the reply text as body.  A turn makes no reply call anywhere else.
C9_ReplyIffThreadAndText ==
    [][\A t \in Turns :
        /\ ReplyStep(t) =>
             IF Truthy(email_data[t].thread_id) /\ agent_response[t] # EmptyStr
             THEN /\ Len(reply_calls'[t]) = 1
                  /\ reply_calls'[t][1].request.connected_account_id
                        = email_data[t].connected_account_id
                  /\ reply_calls'[t][1].request.arguments.recipient_email
                        = email_data[t].sender_email
                  /\ reply_calls'[t][1].request.arguments.thread_id
                        = email_data[t].thread_id
                  /\ reply_calls'[t][1].request.arguments.message_body
                        = agent_response[t]
             ELSE reply_calls'[t] = <<>>
        /\ ~ReplyStep(t) => reply_calls'[t] = reply_calls[t]
        /\ pc[t] # "done" => reply_calls[t] = <<>>
      ]_vars

\* C9 witness: one turn saved and replied once, another saved on a trigger
\* with an empty thread id and made no reply call
C9_Witness ==
    \E t, s \in Turns :
        /\ outcome[t].how = "ok" /\ outcome[t].at = "reply"
        /\ Len(reply_calls[t]) = 1
        /\ reply_calls[t][1].delivered
        /\ outcome[s].how = "ok" /\ outcome[s].at = "reply"
        /\ reply_calls[s] = <<>>
        /\ \E r \in conversations : r.thread_id = ""

\* the produced messages that have text and are no tool invocation
ReplyCandidates(produced) ==
    {i \in 1..Len(produced) :
        produced[i].content # EmptyStr /\ produced[i].tool_calls # "calls"}

\* C10 (as claimed): the reply text is the content of the last produced
\* message that has text and is no tool invocation, that message is an
\* assistant message, and the reply text is empty when there is none
C10_ReplyTextIsLastAssistantText ==
    \A t \in Turns :
        pc[t] = "stream" =>
            LET cands == ReplyCandidates(result_messages[t]) IN
            IF cands = {}
            THEN agent_response[t] = EmptyStr
            ELSE LET last == CHOOSE i \in cands : \A j \in cands : j <= i IN
                 /\ agent_response[t] = result_messages[t][last].content
                 /\ result_messages[t][last].cls = "AIMessage"

\* ---- C11 ..C13: the store under concurrent sessions (SpecDB)
IsSave(c) == db_pc[c] # "idle" /\ db_call[c].op = "save"

SameKey(c, d) ==
    /\ db_call[c].user_id = db_call[d].user_id
    /\ db_call[c].thread_id = db_call[d].thread_id

\* the row holds exactly what this caller passed to save_conversation
HoldsDataOf(r, c) ==
    /\ r.sender_email = db_call[c].sender_email
    /\ r.message_history = json_dumps(db_call[c].message_history)
    /\ r.pending_action = db_call[c].pending_action
    /\ r.context = json_dumps(db_call[c].context)

\* nothing but the other caller disturbs the call: no connection was lost
Undisturbed(c) == db_result[c].value # <<"OperationalError">>

\* C11: when two callers upsert the same key concurrently, then under every
\* interleaving of their read-row and write/commit steps, with or without a
\* row for the key beforehand, both calls complete and the row of the key
\* holds the data of the call that committed last.
C11_ConcurrentUpsertsLastWriterWins ==
    (/\ \A c \in Callers : db_pc[c] = "done" /\ IsSave(c) /\ Undisturbed(c)
     /\ SameKey(1, 2))
    => /\ \A c \in Callers : db_result[c].how = "ok"
       /\ \A r \in filter_by(conversations, db_call[1].user_id, db_call[1].thread_id) :
             HoldsDataOf(r, db_commits[Len(db_commits)])
       /\ filter_by(conversations, db_call[1].user_id, db_call[1].thread_id) # {}

\* C12: in every reachable state of the store, whatever the sequence and
\* interleaving of get, upsert, delete and list operations, at most one row
\* exists for a (user, thread) pair.
C12_OneRowPerUserAndThread ==
    \A r1, r2 \in conversations :
        (r1.user_id = r2.user_id /\ r1.thread_id = r2.thread_id) => r1 = r2

\* two callers raced to insert the same key and both sessions are over
C12_Witness ==
    /\ \A c \in Callers : db_pc[c] = "done" /\ IsSave(c) /\ db_row[c] = <<>>
    /\ SameKey(1, 2)
    /\ db_commits # <<>>
    /\ \E c \in Callers : db_result[c].value = <<"IntegrityError">>

\* the session of caller c ends in this step
SessionEnds(c) == db_pc[c] # "done" /\ db_pc'[c] = "done"

\* C13: every store operation is atomic.  A session that ends without its
\* commit (a write that failed partway) leaves the table as it was and hands
\* the failure to its caller as an exception; the table changes only when a
\* session commits, and then by that session's whole statement; what another
\* caller reads is a committed row, never a row being written.
C13_StoreOperationsAreAtomic ==
    [][ /\ \A c \in Callers :
              (SessionEnds(c) /\ db_commits' = db_commits)
                  => /\ conversations' = conversations
                     /\ db_result'[c].how = "raised"
        /\ conversations' # conversations
              => \E c \in Callers :
                    /\ SessionEnds(c) /\ db_pc[c] = "commit"
                    /\ db_commits' = Append(db_commits, c)
                    /\ db_result'[c].how # "raised"
                    /\ conversations' = db_apply(conversations, db_write[c])
        /\ \A c \in Callers :
              (db_pc[c] = "query" /\ db_pc'[c] = "flush")
                  => \A i \in 1..Len(db_row'[c]) : db_row'[c][i] \in conversations
      ]_vars

\* an upsert was flushed, then failed before its commit, with nobody else around
C13_Witness ==
    \E c \in Callers :
        /\ IsSave(c) /\ db_pc[c] = "done"
        /\ db_result[c].value = <<"OperationalError">>
        /\ now = 2
        /\ db_commits = <<>>
        /\ \A d \in Callers \ {c} : db_pc[d] = "idle"

\* ---- C14 .. C17, C20: the store, one call after another (SpecStore)
\* this step is a direct call of the given operation
StoreStep(op) ==
    /\ Len(api_log') = Len(api_log) + 1
    /\ api_log'[Len(api_log')].op = op

NewCall == api_log'[Len(api_log')]

\* C14: an upsert on a key that has a row replaces the row's sender, message
\* list, pending action and context by the arguments (a pending action not
\* passed is stored as absent, a context not passed as the empty map, nothing
\* is merged with the old values), moves the update timestamp forward and
\* keeps the creation timestamp; on a key without a row it creates exactly one
\* row, both timestamps set to the current time; rows of other keys stay as
\* they are.
C14_UpsertReplacesOrCreates ==
    [][StoreStep("upsert") =>
        LET call == NewCall
            before == filter_by(conversations, call.user_id, call.thread_id)
            after == filter_by(conversations', call.user_id, call.thread_id)
        IN  /\ Cardinality(after) = 1
            /\ \A r \in after :
                  /\ r.sender_email = call.sender_email
                  /\ r.message_history = json_dumps(call.message_history)
                  /\ r.pending_action = call.pending_action
                  /\ r.context = json_dumps(IF call.context = <<>>
                                            THEN EmptyDict ELSE call.context[1])
                  /\ \A o \in before : /\ r.created_at = o.created_at
                                       /\ r.updated_at > o.updated_at
                  /\ before = {} => r.created_at = now /\ r.updated_at = now
            /\ conversations' \ after = conversations \ before
      ]_vars

\* C14 witness: the seeded row, which had a pending action and a context, was
\* upserted with neither passed
C14_Witness ==
    /\ Len(api_log) = 1
    /\ api_log[1].op = "upsert"
    /\ api_log[1].thread_id = "t1" /\ api_log[1].user_id = <<"alice@x.com">>
    /\ api_log[1].pending_action = None /\ api_log[1].context = <<>>
    /\ \E r \in conversations :
          /\ r.created_at = 0 /\ r.updated_at = 1
          /\ r.pending_action = None /\ r.context = json_dumps(EmptyDict)

\* a row without its timestamps
Untimed(r) == [r EXCEPT !.created_at = 0, !.updated_at = 0]

\* C15: an upsert repeated with the same key and the same data leaves the
\* store as the first one left it, timestamps apart.
C15_UpsertIsIdempotent ==
    [][(StoreStep("upsert") /\ api_log # <<>> /\ NewCall = api_log[Len(api_log)]) =>
          {Untimed(r) : r \in conversations'} = {Untimed(r) : r \in conversations}
      ]_vars

\* C15 witness: the same upsert was made twice
C15_Witness ==
    /\ Len(api_log) = 2
    /\ api_log[1].op = "upsert"
    /\ api_log[2] = api_log[1]
    /\ \E r \in conversations : r.updated_at = 2 /\ r.message_history = json_dumps(StoreHistory(2))

\* C16: clear_pending_action on a stored conversation sets its pending action
\* to absent and leaves its stored message list (every record of it) and its
\* sender as they were, so that get_pending_action then returns absent; on a
\* key without a row it changes nothing and creates no row.
C16_ClearPendingKeepsHistoryAndSender ==
    [][StoreStep("clear") =>
        LET call == NewCall
            before == filter_by(conversations, call.user_id, call.thread_id)
            after == filter_by(conversations', call.user_id, call.thread_id)
        IN  /\ before = {} => conversations' = conversations
            /\ before # {} =>
                  /\ Cardinality(after) = 1
                  /\ \A r \in after : \A o \in before :
                        /\ r.pending_action = None
                        /\ r.message_history = o.message_history
                        /\ r.sender_email = o.sender_email
                  /\ get_pending_action(conversations', call.user_id, call.thread_id) = None
      ]_vars

\* C16 witness: the pending action of the seeded conversation, longer than the
\* load window, was cleared
C16_Witness ==
    /\ Len(api_log) = 2
    /\ api_log[1].op = "get_pending" /\ api_log[1].result = "awaiting_connection"
    /\ api_log[2].op = "clear"
    /\ api_log[2].user_id = api_log[1].user_id
    /\ api_log[2].thread_id = api_log[1].thread_id
    /\ \E r \in conversations :
          /\ r.pending_action = None
          /\ Len(json_loads(r.message_history)) = recent_window_size + 2

\* C17: every message load returns has one of the three known roles, and a
\* stored record whose role tag is unknown or missing does not stop the load:
\* it comes back at its position as a user message with its content.
C17_UnknownRoleLoadsAsUser ==
    LastIsLoad =>
        LET stored == StoredHistory(conversations, LastCall.user_id, LastCall.thread_id)
            n == Len(stored)
            skipped == IF n > recent_window_size THEN n - recent_window_size ELSE 0
        IN  /\ Len(LastCall.messages) = n - skipped
            /\ \A i \in 1..Len(LastCall.messages) :
                  /\ LastCall.messages[i].cls \in RecognizedTypes
                  /\ Get(stored[skipped + i], "type", "") \notin RecognizedTypes
                        => /\ LastCall.messages[i].cls = "HumanMessage"
                           /\ LastCall.messages[i].content
                                 = Get(stored[skipped + i], "content", EmptyStr)

\* C17 witness: a history with an unknown tag at 1 and no tag at 2 was loaded
C17_Witness ==
    /\ LastIsLoad
    /\ StoredHistory(conversations, LastCall.user_id, LastCall.thread_id) = StoreHistory(2)
    /\ Len(LastCall.messages) = 4
    /\ LastCall.messages[1].cls = "HumanMessage"
    /\ LastCall.messages[1].content = <<"fn output">>
    /\ LastCall.messages[2].content = <<"untyped">>
    /\ LastCall.messages[3].cls = "AIMessage"

\* C20: delete removes the row of the key if there is one and leaves every
\* other row as it is; on a key without a row it changes nothing and raises
\* nothing; after it, get finds nothing for the key and load returns the empty
\* sequence.
C20_DeleteRemovesOnlyThatRow ==
    [][StoreStep("delete") =>
        LET call == NewCall IN
        /\ conversations' =
              {r \in conversations :
                  ~(r.user_id = call.user_id /\ r.thread_id = call.thread_id)}
        /\ get_conversation(conversations', call.user_id, call.thread_id) = <<>>
        /\ load_conversation_context(conversations', call.user_id, call.thread_id) = <<>>
      ]_vars

\* C20 witness: get found the conversation, delete followed, the row is gone
C20_Witness ==
    /\ Len(api_log) = 2
    /\ api_log[1].op = "get" /\ api_log[1].result # <<>>
    /\ api_log[2].op = "delete"
    /\ api_log[2].user_id = api_log[1].user_id
    /\ api_log[2].thread_id = api_log[1].thread_id
    /\ conversations = {}

\* ---- C18, C19: the trigger payloads, parsed (SpecParse)
\* the sender string is "Display Name <addr>": after its first "<" comes a
\* ">", with no bracket in between
ClosingAfterFirstOpen(s) ==
    CHOOSE j \in (IndexOf(s, "<") + 1)..Len(s) :
        s[j] = ">" /\ \A k \in (IndexOf(s, "<") + 1)..(j - 1) : s[k] # ">"

Decorated(s) ==
    /\ Contains(s, "<")
    /\ \E j \in (IndexOf(s, "<") + 1)..Len(s) : s[j] = ">"
    /\ \A k \in (IndexOf(s, "<") + 1)..(ClosingAfterFirstOpen(s) - 1) : s[k] # "<"

\* the text between the first "<" and the ">" that follows it
BracketedAddress(s) ==
    SubSeq(s, IndexOf(s, "<") + 1, ClosingAfterFirstOpen(s) - 1)

HasSender(trig) ==
    "payload" \in DOMAIN trig /\ "sender" \in DOMAIN trig.payload

Parsed == api_log[1].result

\* what parse_trigger_payload made of the sender of the parsed event
C18_Extraction ==
    api_log # <<>> =>
        LET trig == api_log[1].trigger_data IN
        /\ (HasSender(trig) /\ Decorated(trig.payload.sender))
              => Parsed.sender_email = BracketedAddress(trig.payload.sender)
        /\ (/\ HasSender(trig)
            /\ trig.payload.sender # EmptyStr
            /\ ~(Contains(trig.payload.sender, "<") /\ Contains(trig.payload.sender, ">")))
              => Parsed.sender_email = trig.payload.sender
        /\ (~HasSender(trig) \/ Get(Get(trig, "payload", EmptyDict), "sender", EmptyStr) = EmptyStr)
              => Parsed.sender_email = <<"unknown@email.com">>

\* what the turn does with the parsed sender
C18_Keying ==
    /\ Receives(1) =>
          /\ pc'[1] = "load" <=> ~SenderIsMailbox(Parsed.sender_email)
          /\ pc'[1] = "load" => email_data'[1].sender_email = Parsed.sender_email
    /\ (pc[1] = "load" /\ pc'[1] = "session") =>
          message_history'[1] =
              load_conversation_context(conversations, Parsed.sender_email,
                                        Parsed.thread_id)
    /\ SaveCommits(1) =>
          \E r \in conversations' :
              /\ r.user_id = Parsed.sender_email
              /\ r.thread_id = Parsed.thread_id
              /\ r.updated_at = now

\* C18: parse_trigger takes the sender address out of the sender string: from
\* "Display Name <addr>" the text between the first "<" and the ">" after it,
\* a non-empty string without both brackets as it is, the sentinel
\* "unknown@email.com" when the sender is empty or absent; the turn checks
\* loop prevention against this address and loads and saves the conversation
\* under it.
C18_SenderAddressIsExtractedAndKeys ==
    [](C18_Extraction) /\ [][C18_Keying]_vars

\* C18 witness: a decorated sender was parsed and the turn saved under the
\* bracketed address
C18_Witness ==
    /\ api_log # <<>>
    /\ api_log[1].trigger_data = TrigFrom(<<"Alice ", "<", "alice@x.com", ">">>)
    /\ Parsed.sender_email = <<"alice@x.com">>
    /\ pc[1] = "reply"
    /\ \E r \in conversations :
          r.user_id = <<"alice@x.com">> /\ Len(json_loads(r.message_history)) = 4

\* C19: parse_trigger does not fail on an event that lacks optional fields:
\* whichever of payload, sender, subject, message_text, thread_id, message_id,
\* metadata, connected_account and id are absent, it returns a trigger event,
\* with "No Subject" for a missing subject, the empty body for a missing
\* message text, and an absent thread id, message id and account handle for
\* the missing ones.
C19_MissingFieldsGetDefaults ==
    api_log # <<>> =>
        \A absent \in SUBSET OptionalFields :
            api_log[1].trigger_data = TrigWithout(absent) =>
                LET no_payload == "payload" \in absent IN
                /\ DOMAIN Parsed = {"sender_email", "subject", "body", "thread_id",
                                    "message_id", "connected_account_id"}
                /\ (no_payload \/ "subject" \in absent)
                      => Parsed.subject = <<"No Subject">>
                /\ (no_payload \/ "message_text" \in absent)
                      => Parsed.body = EmptyStr
                /\ (no_payload \/ "thread_id" \in absent)
                      => Parsed.thread_id = None
                /\ (no_payload \/ "message_id" \in absent)
                      => Parsed.message_id = None
                /\ ({"metadata", "connected_account", "id"} \cap absent # {})
                      => Parsed.connected_account_id = None

\* C19 witness: an event without subject, thread id and account id was parsed
C19_Witness ==
    /\ api_log # <<>>
    /\ api_log[1].trigger_data = TrigWithout({"subject", "thread_id", "id"})
    /\ Parsed.subject = <<"No Subject">>
    /\ Parsed.thread_id = None
    /\ Parsed.connected_account_id = None
    /\ Parsed.message_id = "m1"

\* ---- C21, C22, C24: two turns on one conversation (SpecRace)
\* the rows of the other (user, thread) keys
OtherRows(tbl, user_id, thread_id) == tbl \ filter_by(tbl, user_id, thread_id)

\* the stored records that carry an inbound email
InboundRecords(stored) ==
    {i \in 1..Len(stored) :
        /\ stored[i].type = "HumanMessage"
        /\ Len(stored[i].content) > 0
        /\ stored[i].content[1] = "Process this email and execute the instructions:"}

\* C21: nothing serializes two turns on one (user, thread) key.  The save of a
\* turn writes the history that turn loaded, its inbound message and its
\* engine output, whatever another turn stored for the key in the meantime,
\* so that when both turns loaded before either saved, the history left by
\* the later save holds the inbound message and output of that turn only;
\* the rows of other keys are left as they are.
C21_LaterSaveOverwritesEarlierTurn ==
    [][\A t \in Turns :
        SaveCommits(t) =>
          LET user_id == email_data[t].sender_email
              thread_id == email_data[t].thread_id
          IN  /\ SameMessages(StoredHistory(conversations', user_id, thread_id),
                     message_history[t] \o <<new_message[t]>> \o result_messages[t])
              /\ OtherRows(conversations', user_id, thread_id)
                    = OtherRows(conversations, user_id, thread_id)
      ]_vars

\* C21 witness: turn 1 saved on the seeded thread and sent its reply, turn 2
\* saved on the same thread after it, and the stored history holds the three
\* seeded records and the inbound message of turn 2 alone
C21_Witness ==
    /\ outcome[1].how = "ok"
    /\ Len(reply_calls[1]) = 1 /\ reply_calls[1][1].delivered
    /\ reply_calls[1][1].request.arguments.thread_id = "t1"
    /\ reply_calls[1][1].request.arguments.recipient_email = <<"alice@x.com">>
    /\ pc[2] = "reply"
    /\ trigger_data[2] = TrigAgain
    /\ LET stored == StoredHistory(conversations, <<"alice@x.com">>, "t1") IN
       /\ Cardinality(InboundRecords(stored)) = 1
       /\ stored[4].content = build_new_message(email_data[2]).content
       /\ stored[3].content = <<"m", "3">>
    /\ \A r \in filter_by(conversations, <<"alice@x.com">>, "t1") : r.updated_at = 2

\* C22: the order of a turn.  The engine's output is taken only before the
\* save; the turn comes to its reply step only by a save that commits the
\* whole list (loaded history, inbound message, everything the engine
\* produced); send_reply is called only in the reply step; and from the save
\* on the turn leaves the table as it is.
C22_EngineThenSaveThenReply ==
    [][\A t \in Turns :
        /\ result_messages'[t] # result_messages[t] =>
              \/ pc[t] = "session" /\ pc'[t] = "stream"
              \/ pc[t] = "stream"
        /\ (pc[t] # "reply" /\ pc'[t] = "reply") =>
              /\ pc[t] = "stream"
              /\ current_messages[t]
                    = message_history[t] \o <<new_message[t]>> \o result_messages[t]
              /\ SameMessages(StoredHistory(conversations', email_data[t].sender_email,
                                            email_data[t].thread_id),
                              current_messages[t])
        /\ reply_calls'[t] # reply_calls[t] => pc[t] = "reply"
        /\ (pc[t] = "reply" /\ pc'[t] # "reply") => conversations' = conversations
      ]_vars

\* C22 witness: a turn alone produced two messages, saved and replied, and
\* the row holds its whole list, ending with the text it replied
C22_Witness ==
    \E t \in Turns :
        /\ \A s \in Turns \ {t} : pc[s] = "idle"
        /\ outcome[t].how = "ok"
        /\ Len(reply_calls[t]) = 1 /\ reply_calls[t][1].delivered
        /\ LET stored == StoredHistory(conversations,
                            reply_calls[t][1].request.arguments.recipient_email,
                            reply_calls[t][1].request.arguments.thread_id)
           IN  /\ Len(stored) = 3 + 1 + 2
               /\ stored[6].content = reply_calls[t][1].request.arguments.message_body

\* ---- C23: messages with auxiliary fields, saved and loaded (SpecAux)
\* the last two direct calls were a save and a load of the same conversation
LoadAfterSave ==
    /\ Len(api_log) >= 2
    /\ api_log[Len(api_log)].op = "load"
    /\ api_log[Len(api_log) - 1].op = "save"
    /\ api_log[Len(api_log)].user_id = api_log[Len(api_log) - 1].user_id
    /\ api_log[Len(api_log)].thread_id = api_log[Len(api_log) - 1].thread_id

\* C23: the auxiliary map of a message survives the round trip: a load that
\* follows a save returns, for every saved message, a message with the same
\* additional_kwargs.
C23_AuxiliaryFieldsSurviveRoundTrip ==
    LoadAfterSave =>
        LET saved == api_log[Len(api_log) - 1].messages
            loaded == api_log[Len(api_log)].messages
        IN  /\ Len(loaded) = Len(saved)
            /\ \A i \in 1..Len(saved) :
                  loaded[i].additional_kwargs = saved[i].additional_kwargs

\* ---- C24: a turn on a conversation with state set on it (SpecPending)
\* C24: a write through the context manager resets the conversation state it
\* is not given.  The save of a turn leaves the conversation with no pending
\* action and the empty context, whatever the two were before; and
\* clear_pending_action leaves it with the empty context (and no pending
\* action).  So a pending action set on a conversation is gone after the next
\* turn that saves on it.
C24_ContextManagerWritesResetState ==
    [][ /\ \A t \in Turns :
              SaveCommits(t) =>
                  /\ filter_by(conversations', email_data[t].sender_email,
                               email_data[t].thread_id) # {}
                  /\ \A r \in filter_by(conversations', email_data[t].sender_email,
                                        email_data[t].thread_id) :
                        /\ r.pending_action = None
                        /\ r.context = json_dumps(EmptyDict)
        /\ StoreStep("clear") =>
              \A r \in filter_by(conversations', NewCall.user_id, NewCall.thread_id) :
                  /\ r.pending_action = None
                  /\ r.context = json_dumps(EmptyDict)
      ]_vars

\* C24 witness: a pending action and a context were set on the conversation
\* by a direct save, then the turn saved on it, and both are gone
C24_Witness ==
    /\ Len(api_log) = 1
    /\ api_log[1].op = "upsert"
    /\ api_log[1].pending_action = "awaiting_connection"
    /\ api_log[1].context # <<>>
    /\ pc[1] = "reply"
    /\ email_data[1].sender_email = api_log[1].user_id
    /\ email_data[1].thread_id = api_log[1].thread_id
    /\ \E r \in filter_by(conversations, api_log[1].user_id, api_log[1].thread_id) :
          /\ r.updated_at = 2
          /\ r.pending_action = None
          /\ r.context = json_dumps(EmptyDict)

====
